---- MODULE Spec2Model ----
(***************************************************************************)
(* si - string interpolator (src/main.rs).                                 *)
(*                                                                         *)
(* Text is a sequence of one-character strings; offsets are 0-based byte   *)
(* offsets as in the Rust source (the guards are ASCII, so every offset    *)
(* the scan computes is a character boundary).  An absent Option<usize>    *)
(* is -1.                                                                  *)
(***************************************************************************)
EXTENDS Integers, Sequences, FiniteSets, TLC

VARIABLES
    pc,        \* position in main -> parse -> interpolate
    file,      \* matches.value_of("file")
    env,       \* the process environment, std::env::vars()
    fs,        \* files of the working directory: path -> lines
    stdin,     \* what io::stdin() delivers
    verbose,   \* interpolate's parameter verbose
    strict,    \* interpolate's parameter strict
    mode,      \* the Mode main selected
    mapping,   \* HashMap<String, String> returned by parse
    buf,       \* interpolate's buffer
    travel,    \* interpolate's cursor
    begin,     \* offset of the opening guard of the current iteration
    end,       \* offset of the closing guard of the current iteration
    stdout,    \* bytes written to standard output
    stderr,    \* eprintln! lines of interpolate
    panicMsg,  \* the panic that ended the process, if any
    hist,      \* history: one record per iteration of the scan loop (see Entry)
    inserted   \* history: per character of buf, whether a replacement put it there

vars == <<pc, file, env, fs, stdin, verbose, strict, mode, mapping, buf, travel,
          begin, end, stdout, stderr, panicMsg, hist, inserted>>

(***************************************************************************)
(* Bounds of the model.                                                    *)
(***************************************************************************)
MaxPieces == 5
MaxDriverPieces == 3
MaxFairPieces == 4

(***************************************************************************)
(* Text helpers: str slicing and str::find.                                *)
(***************************************************************************)
NL == "\n"
OpenGuard == <<"$", "{">>
CloseGuard == <<"}">>

Slice(s, a, b) == SubSeq(s, a + 1, b)

From(s, a) == Slice(s, a, Len(s))

Find(s, pat) ==
    LET hits == {i \in 0..(Len(s) - Len(pat)) : Slice(s, i, i + Len(pat)) = pat}
    IN  IF hits = {} THEN -1
        ELSE CHOOSE i \in hits : \A j \in hits : i <= j

CountNewlines(s) == Cardinality({i \in 1..Len(s) : s[i] = NL})

Flags(n, b) == [i \in 1..n |-> b]

(***************************************************************************)
(* Values of the model: Option<&str>, Mode, the panic payload.             *)
(***************************************************************************)
NoFile == [some |-> FALSE, path |-> <<>>]

SomeFile(p) == [some |-> TRUE, path |-> p]

ModeUnset == [tag |-> "unset", p |-> <<>>]

ModeEnv == [tag |-> "Env", p |-> <<>>]

ModeTextFile(p) == [tag |-> "TextFile", p |-> p]

NoPanic == [kind |-> "none", line |-> 0, key |-> <<>>]

Panic(kind, line, key) == [kind |-> kind, line |-> line, key |-> key]

EmptyMap == [k \in {} |-> <<>>]

(***************************************************************************)
(* interpolate: the pieces of one iteration of the scan loop.              *)
(***************************************************************************)
\* buf[travel..].find("${"), rebased by travel
NextBegin ==
    LET b == Find(From(buf, travel), OpenGuard)
    IN  IF b = -1 THEN -1 ELSE travel + b

\* buf[begin..].find("}"), rebased by begin
NextEnd(b) ==
    LET e == Find(From(buf, b), CloseGuard)
    IN  IF e = -1 THEN -1 ELSE b + e

\* &buf[begin+2..end]
Key(b, e) == Slice(buf, b + 2, e)

\* mapping.get_key_value(key) is Some
GetKeyValue(m, k) == k \in DOMAIN m

ReplaceRange_KeepsClose(s, b, e, v) == Slice(s, 0, b) \o v \o From(s, e)

\* buf.replace_range(begin..end+1, v)
ReplaceRange(s, b, e, v) == Slice(s, 0, b) \o v \o From(s, e + 1)

FoundTravel_Rescan(b, v) == b

FoundTravel_PastValue(b, v) == b + Len(v) + 1

\* travel = begin + v.len()
FoundTravel(b, v) == b + Len(v)

NotFoundTravel_Reprocess(b, e) == b

NotFoundTravel_SkipsOne(b, e) == e + 2

\* travel = end + 1
NotFoundTravel(b, e) == e + 1

lineno_AtGuard(s, t, b) == CountNewlines(Slice(s, 0, b))

\* buf[..travel].as_bytes().iter().filter(|&&c| c == b'\n').count()
lineno(s, t, b) == CountNewlines(Slice(s, 0, t))

\* history record of one iteration: what it found, and the buffer and cursor it started from
StrictPanics_Never(st) == FALSE

\* if strict { panic!(...) }
StrictPanics(st) == st

Entry(kind, k, b, e) ==
    [kind |-> kind, key |-> k, begin |-> b, end |-> e,
     travel |-> travel, buf |-> buf, inserted |-> inserted]

(***************************************************************************)
(* interpolate                                                             *)
(***************************************************************************)
driverVars == <<file, env, fs, stdin, verbose, strict, mode, mapping>>

\* read_to_string(stdin): the whole input, or a panic when it is not text
ReadStdin ==
    /\ pc = "interpolate"
    /\ IF stdin.valid
       THEN /\ buf' = stdin.text
            /\ inserted' = Flags(Len(stdin.text), FALSE)
            /\ pc' = "scan"
            /\ panicMsg' = panicMsg
       ELSE /\ pc' = "panic"
            /\ panicMsg' = Panic("input", 0, <<>>)
            /\ UNCHANGED <<buf, inserted>>
    /\ travel' = 0
    /\ UNCHANGED <<driverVars, begin, end, stdout, stderr, hist>>

\* Some((k, v)): splice the value in and resume after it
ScanFound ==
    /\ pc = "scan"
    /\ NextBegin # -1
    /\ NextEnd(NextBegin) # -1
    /\ LET b == NextBegin
           e == NextEnd(b)
           k == Key(b, e)
       IN  /\ GetKeyValue(mapping, k)
           /\ LET v == mapping[k]
              IN  /\ buf' = ReplaceRange(buf, b, e, v)
                  /\ inserted' = ReplaceRange(inserted, b, e, Flags(Len(v), TRUE))
                  /\ travel' = FoundTravel(b, v)
                  /\ stderr' = IF verbose
                               THEN Append(stderr, [kind |-> "matched", key |-> k, value |-> v])
                               ELSE stderr
           /\ begin' = b
           /\ end' = e
           /\ hist' = Append(hist, Entry("found", k, b, e))
    /\ UNCHANGED <<driverVars, pc, stdout, panicMsg>>

\* None, not strict: leave the placeholder and resume after its closing guard
ScanNotFound ==
    /\ pc = "scan"
    /\ NextBegin # -1
    /\ NextEnd(NextBegin) # -1
    /\ ~StrictPanics(strict)
    /\ LET b == NextBegin
           e == NextEnd(b)
           k == Key(b, e)
       IN  /\ ~GetKeyValue(mapping, k)
           /\ travel' = NotFoundTravel(b, e)
           /\ stderr' = IF verbose
                        THEN Append(stderr, [kind |-> "unresolved", key |-> k, value |-> <<>>])
                        ELSE stderr
           /\ begin' = b
           /\ end' = e
           /\ hist' = Append(hist, Entry("notfound", k, b, e))
    /\ UNCHANGED <<driverVars, pc, buf, inserted, stdout, panicMsg>>

\* None, strict: panic!("Could not resolve key: {}", key)
ScanStrictPanic ==
    /\ pc = "scan"
    /\ NextBegin # -1
    /\ NextEnd(NextBegin) # -1
    /\ StrictPanics(strict)
    /\ LET b == NextBegin
           e == NextEnd(b)
           k == Key(b, e)
       IN  /\ ~GetKeyValue(mapping, k)
           /\ pc' = "panic"
           /\ panicMsg' = Panic("resolve", 0, k)
           /\ begin' = b
           /\ end' = e
           /\ hist' = Append(hist, Entry("strictfail", k, b, e))
    /\ UNCHANGED <<driverVars, buf, inserted, travel, stdout, stderr>>

\* no closing guard: panic!("Mismatched placeholders on line {}", lineno)
ScanMismatched ==
    /\ pc = "scan"
    /\ NextBegin # -1
    /\ NextEnd(NextBegin) = -1
    /\ LET b == NextBegin
       IN  /\ pc' = "panic"
           /\ panicMsg' = Panic("mismatched", lineno(buf, travel, b), <<>>)
           /\ begin' = b
           /\ hist' = Append(hist, Entry("mismatch", <<>>, b, -1))
    /\ UNCHANGED <<driverVars, buf, inserted, travel, end, stdout, stderr>>

\* the loop ends (find is None) and the buffer goes to standard output; the
\* texts of the model are far shorter than the buffer of standard output, so
\* the single write call takes all of it
WriteStdout ==
    /\ pc = "scan"
    /\ NextBegin = -1
    /\ stdout' = buf
    /\ pc' = "done"
    /\ UNCHANGED <<driverVars, buf, inserted, travel, begin, end, stderr, panicMsg, hist>>

Interpolate ==
    \/ ReadStdin
    \/ ScanFound
    \/ ScanNotFound
    \/ ScanStrictPanic
    \/ ScanMismatched
    \/ WriteStdout

(***************************************************************************)
(* Inputs of the model.                                                    *)
(***************************************************************************)
Pieces == {OpenGuard, CloseGuard, <<"{">>, <<"a">>, <<NL>>}

\* guards and key characters only: the texts FairSpec starts from
GuardPieces == {OpenGuard, CloseGuard, <<"a">>}

\* every concatenation of at most n pieces of P
RECURSIVE TextsOver(_, _)
TextsOver(P, n) ==
    IF n = 0 THEN {<<>>}
    ELSE LET prev == TextsOver(P, n - 1)
         IN  prev \cup {s \o p : s \in prev, p \in P}

Texts(n) == TextsOver(Pieces, n)

Stdin(texts) == [valid : {TRUE}, text : texts] \cup {[valid |-> FALSE, text |-> <<>>]}

KeyA == <<"a">>
KeyEmpty == <<>>
KeyUpperA == <<"A">>

Mappings ==
    { EmptyMap,
      (KeyA :> <<"$", "{", "a", "}">>) @@ (KeyEmpty :> <<"$">>),
      (KeyA :> <<>>) @@ (KeyEmpty :> <<NL, "a", "$", "{", "}">>),
      (KeyA :> <<"a", NL>>),
      (KeyEmpty :> <<"$", "{">>),
      (KeyUpperA :> <<"a">>) @@ (KeyEmpty :> <<"}">>) }

(***************************************************************************)
(* Spec: interpolate(verbose, strict, mapping) on every bounded input.     *)
(***************************************************************************)
Init ==
    /\ pc = "interpolate"
    /\ file = NoFile
    /\ mode = ModeEnv
    /\ fs = EmptyMap
    /\ mapping \in Mappings
    /\ env = mapping
    /\ stdin \in Stdin(Texts(MaxPieces))
    /\ verbose \in BOOLEAN
    /\ strict \in BOOLEAN
    /\ buf = <<>>
    /\ inserted = <<>>
    /\ travel = 0
    /\ begin = 0
    /\ end = 0
    /\ stdout = <<>>
    /\ stderr = <<>>
    /\ panicMsg = NoPanic
    /\ hist = <<>>

Next == Interpolate

Spec == Init /\ [][Next]_vars

\* FairSpec: the same call on the texts made of guards and key characters.
\* The process is one blocking call chain: a step that can be taken is taken.
FairInit ==
    /\ pc = "interpolate"
    /\ file = NoFile
    /\ mode = ModeEnv
    /\ fs = EmptyMap
    /\ mapping \in Mappings
    /\ env = mapping
    /\ stdin \in Stdin(TextsOver(GuardPieces, MaxFairPieces))
    /\ verbose \in BOOLEAN
    /\ strict \in BOOLEAN
    /\ buf = <<>>
    /\ inserted = <<>>
    /\ travel = 0
    /\ begin = 0
    /\ end = 0
    /\ stdout = <<>>
    /\ stderr = <<>>
    /\ panicMsg = NoPanic
    /\ hist = <<>>

FairSpec == FairInit /\ [][Next]_vars /\ WF_vars(Next)

(***************************************************************************)
(* main: Path::extension and OsStr::to_ascii_lowercase.                    *)
(***************************************************************************)
LastIndexOf(s, c) ==
    LET hits == {i \in 0..(Len(s) - 1) : s[i + 1] = c}
    IN  IF hits = {} THEN -1
        ELSE CHOOSE i \in hits : \A j \in hits : j <= i

\* Path::file_name: the last component of the path
FileName(p) == From(p, LastIndexOf(p, "/") + 1)

\* Path::extension: the part of the file name after its last dot; None (the
\* record's some is FALSE) without a dot, or when the only dot leads the name
Extension(p) ==
    LET name == FileName(p)
        dot == LastIndexOf(name, ".")
    IN  IF name = <<>> \/ name = <<".", ".">> \/ dot <= 0
        THEN NoFile
        ELSE SomeFile(From(name, dot + 1))

AsciiLower(c) ==
    CASE c = "A" -> "a"
      [] c = "T" -> "t"
      [] c = "X" -> "x"
      [] OTHER -> c

to_ascii_lowercase(s) == [i \in 1..Len(s) |-> AsciiLower(s[i])]

Txt == <<"t", "x", "t">>

(***************************************************************************)
(* parse                                                                   *)
(***************************************************************************)
\* line.split("=").collect()
RECURSIVE split(_)
split(line) ==
    LET i == Find(line, <<"=">>)
    IN  IF i = -1 THEN <<line>>
        ELSE <<Slice(line, 0, i)>> \o split(From(line, i + 1))

\* one turn of the for loop over the lines
InsertLine(m, line) ==
    LET parts == split(line)
    IN  IF Len(parts) # 2 THEN m
        ELSE (parts[1] :> parts[2]) @@ m

RECURSIVE ParseLines(_, _)
ParseLines(m, lines) ==
    IF lines = <<>> THEN m
    ELSE ParseLines(InsertLine(m, Head(lines)), Tail(lines))

engineVars == <<buf, travel, begin, end, stdout, stderr, hist, inserted>>

(***************************************************************************)
(* main                                                                    *)
(***************************************************************************)
\* matches.value_of("file") is None
MainEnv ==
    /\ pc = "main"
    /\ ~file.some
    /\ mode' = ModeEnv
    /\ pc' = "parse"
    /\ UNCHANGED <<file, env, fs, stdin, verbose, strict, mapping, engineVars, panicMsg>>

\* the extension lowercases to "txt": Mode::TextFile(s.to_string_lossy().to_string())
MainTextFile ==
    /\ pc = "main"
    /\ file.some
    /\ Extension(file.path).some
    /\ to_ascii_lowercase(Extension(file.path).path) = Txt
    /\ mode' = ModeTextFile(Extension(file.path).path)
    /\ pc' = "parse"
    /\ UNCHANGED <<file, env, fs, stdin, verbose, strict, mapping, engineVars, panicMsg>>

\* any other extension: panic!("Only text (\"txt\") files are supported")
MainUnsupported ==
    /\ pc = "main"
    /\ file.some
    /\ Extension(file.path).some
    /\ to_ascii_lowercase(Extension(file.path).path) # Txt
    /\ pc' = "panic"
    /\ panicMsg' = Panic("unsupported", 0, <<>>)
    /\ UNCHANGED <<file, env, fs, stdin, verbose, strict, mode, mapping, engineVars>>

\* no extension: panic!("Unable to detect file extension")
MainNoExtension ==
    /\ pc = "main"
    /\ file.some
    /\ ~Extension(file.path).some
    /\ pc' = "panic"
    /\ panicMsg' = Panic("noextension", 0, <<>>)
    /\ UNCHANGED <<file, env, fs, stdin, verbose, strict, mode, mapping, engineVars>>

(***************************************************************************)
(* parse                                                                   *)
(***************************************************************************)
\* Mode::Env: mapping = std::env::vars().collect()
ParseEnv ==
    /\ pc = "parse"
    /\ mode.tag = "Env"
    /\ mapping' = env
    /\ pc' = "interpolate"
    /\ UNCHANGED <<file, env, fs, stdin, verbose, strict, mode, engineVars, panicMsg>>

\* Mode::TextFile(p): the lines of the file named p
ParseTextFile ==
    /\ pc = "parse"
    /\ mode.tag = "TextFile"
    /\ mode.p \in DOMAIN fs
    /\ mapping' = ParseLines(EmptyMap, fs[mode.p])
    /\ pc' = "interpolate"
    /\ UNCHANGED <<file, env, fs, stdin, verbose, strict, mode, engineVars, panicMsg>>

\* File::open(p).unwrap() on a file that does not exist
ParseOpenFails ==
    /\ pc = "parse"
    /\ mode.tag = "TextFile"
    /\ mode.p \notin DOMAIN fs
    /\ pc' = "panic"
    /\ panicMsg' = Panic("open", 0, <<>>)
    /\ UNCHANGED <<file, env, fs, stdin, verbose, strict, mode, mapping, engineVars>>

Main ==
    \/ MainEnv
    \/ MainTextFile
    \/ MainUnsupported
    \/ MainNoExtension

Parse ==
    \/ ParseEnv
    \/ ParseTextFile
    \/ ParseOpenFails

(***************************************************************************)
(* DriverSpec: the whole program, from the command line on.                *)
(***************************************************************************)
PathTxt == <<"d", ".", "t", "x", "t">>
PathUpperTxt == <<"d", ".", "T", "X", "T">>
PathJson == <<"d", ".", "j", "s", "o", "n">>
PathBare == <<"d">>
PathDotTxt == <<".", "t", "x", "t">>

Paths == {PathTxt, PathUpperTxt, PathJson, PathBare, PathDotTxt}

\* a=$ / A=a / a=a==a (the doc comment's "equation=y == mx + b" shape)
DefsLines == << <<"a", "=", "$">>, <<"A", "=", "a">>, <<"a", "=", "a", "=", "=", "a">> >>

\* A=a / (blank) / =} / a==a=a
OtherLines ==
    << <<"A", "=", "a">>, <<>>, <<"=", "}">>, <<"a", "=", "=", "a", "=", "a">> >>

\* {"a":{"a":"a"}}
JsonLines == << <<"{", "\"", "a", "\"", ":", "{", "\"", "a", "\"", ":", "\"", "a", "\"", "}", "}">> >>

Named == (PathTxt :> DefsLines) @@ (PathUpperTxt :> DefsLines) @@ (PathJson :> JsonLines)

Filesystems ==
    { Named,
      (Txt :> OtherLines) @@ Named,
      (Txt :> OtherLines) @@ (<<"T", "X", "T">> :> DefsLines) @@ Named }

Environments ==
    { (KeyUpperA :> <<"a">>),
      (KeyA :> <<"$">>) @@ (KeyUpperA :> <<NL>>) }

InitDriver ==
    /\ pc = "main"
    /\ file \in {NoFile} \cup {SomeFile(p) : p \in Paths}
    /\ mode = ModeUnset
    /\ fs \in Filesystems
    /\ env \in Environments
    /\ mapping = EmptyMap
    /\ stdin \in Stdin(Texts(MaxDriverPieces))
    /\ verbose \in BOOLEAN
    /\ strict \in BOOLEAN
    /\ buf = <<>>
    /\ inserted = <<>>
    /\ travel = 0
    /\ begin = 0
    /\ end = 0
    /\ stdout = <<>>
    /\ stderr = <<>>
    /\ panicMsg = NoPanic
    /\ hist = <<>>

NextDriver == Main \/ Parse \/ Interpolate

DriverSpec == InitDriver /\ [][NextDriver]_vars

(***************************************************************************)
(* What the claims speak of, stated on the original input alone.           *)
(***************************************************************************)
input == stdin.text

Terminated == pc \in {"done", "panic"}

\* every "${" of s has a "}" somewhere after it
WellFormed(s) ==
    \A i \in 0..(Len(s) - 2) :
        Slice(s, i, i + 2) = OpenGuard => \E j \in (i + 2)..(Len(s) - 1) : s[j + 1] = "}"

\* the keys of the placeholders of s, each from "${" to the first following "}",
\* taken left to right
RECURSIVE PlaceholderKeys(_)
PlaceholderKeys(s) ==
    LET b == Find(s, OpenGuard)
        e == Find(From(s, b), CloseGuard)
    IN  IF b = -1 \/ e = -1 THEN {}
        ELSE {Slice(s, b + 2, b + e)} \cup PlaceholderKeys(From(s, b + e + 1))

\* s with every placeholder whose key m defines replaced by its value, the
\* others left as written
RECURSIVE Substituted(_, _)
Substituted(s, m) ==
    LET b == Find(s, OpenGuard)
        e == Find(From(s, b), CloseGuard)
    IN  IF b = -1 \/ e = -1 THEN s
        ELSE LET k == Slice(s, b + 2, b + e)
                 rep == IF k \in DOMAIN m THEN m[k] ELSE Slice(s, b, b + e + 1)
             IN  Slice(s, 0, b) \o rep \o Substituted(From(s, b + e + 1), m)

\* how a strict left-to-right pass over s ends: "ok", "mismatched", or
\* "resolve" with the first key m does not define
RECURSIVE StrictOutcome(_, _)
StrictOutcome(s, m) ==
    LET b == Find(s, OpenGuard)
        e == Find(From(s, b), CloseGuard)
    IN  IF b = -1 THEN [kind |-> "ok", key |-> <<>>]
        ELSE IF e = -1 THEN [kind |-> "mismatched", key |-> <<>>]
        ELSE LET k == Slice(s, b + 2, b + e)
             IN  IF k \in DOMAIN m THEN StrictOutcome(From(s, b + e + 1), m)
                 ELSE [kind |-> "resolve", key |-> k]

\* the buffer and cursor that iteration i of the loop left behind
After(i) ==
    IF i < Len(hist)
    THEN [buf |-> hist[i + 1].buf, travel |-> hist[i + 1].travel]
    ELSE [buf |-> buf, travel |-> travel]

Kinds == {hist[i].kind : i \in 1..Len(hist)}

\* every guard of the input is matched and every placeholder key is defined
AllResolved ==
    /\ stdin.valid
    /\ WellFormed(input)
    /\ PlaceholderKeys(input) \subseteq DOMAIN mapping

(***************************************************************************)
(* C1: when every "${" of the input has a following "}" and every          *)
(* placeholder key has a mapping entry, the run succeeds and the output is *)
(* the input with each placeholder span replaced by exactly its value, all *)
(* other text preserved in order.                                          *)
(***************************************************************************)
C1_SubstitutesEveryResolvedPlaceholder ==
    (Terminated /\ AllResolved) =>
        /\ pc = "done"
        /\ stdout = Substituted(input, mapping)

C1_Witness ==
    /\ pc = "done"
    /\ AllResolved
    /\ Len(hist) >= 2
    /\ Len(stdout) > Len(input)
    /\ \E i \in 1..Len(stdout) : ~inserted[i]

(***************************************************************************)
(* C2: substitution is non-recursive.  After a Found replacement the       *)
(* cursor stands immediately after the inserted value, which is in the     *)
(* buffer verbatim; every character a replacement inserted lies before the *)
(* cursor; and no placeholder the scan discovers contains a character that *)
(* a replacement inserted.                                                 *)
(***************************************************************************)
C2_NeverRescansInsertedText ==
    /\ \A i \in 1..Len(inserted) : inserted[i] => i <= travel
    /\ \A i \in 1..Len(hist) :
        LET h == hist[i]
        IN  /\ h.end # -1 => \A j \in (h.begin + 1)..(h.end + 1) : ~h.inserted[j]
            /\ h.end = -1 => \A j \in (h.begin + 1)..Len(h.buf) : ~h.inserted[j]
            /\ h.kind = "found" =>
                LET v == mapping[h.key]
                IN  /\ After(i).travel = h.begin + Len(v)
                    /\ Slice(After(i).buf, h.begin, h.begin + Len(v)) = v
                    /\ Slice(buf, h.begin, h.begin + Len(v)) = v

\* a value that ends in "$" was inserted right before "{}" of the input, the
\* empty key is defined, and "${}" went to the output unexpanded
C2_Witness ==
    /\ pc = "done"
    /\ KeyEmpty \in DOMAIN mapping
    /\ \E i \in 1..(Len(stdout) - 2) :
        /\ Slice(stdout, i - 1, i + 2) = <<"$", "{", "}">>
        /\ inserted[i]
        /\ ~inserted[i + 1]

\* every guard of the input is matched and some placeholder key is not defined
SomeUnresolved ==
    /\ stdin.valid
    /\ WellFormed(input)
    /\ ~(PlaceholderKeys(input) \subseteq DOMAIN mapping)

(***************************************************************************)
(* C4: not strict, a placeholder whose key has no entry stays in the       *)
(* buffer exactly as written, the cursor moves to just after its closing   *)
(* guard, and on an input whose guards all match the run ends in success   *)
(* with every placeholder that does resolve replaced.                      *)
(***************************************************************************)
C4_UnresolvedPassesThrough ==
    /\ \A i \in 1..Len(hist) :
        LET h == hist[i]
        IN  h.kind = "notfound" =>
                /\ After(i).buf = h.buf
                /\ After(i).travel = h.end + 1
                /\ Slice(h.buf, h.begin, h.end + 1) = OpenGuard \o h.key \o CloseGuard
                /\ h.key \notin DOMAIN mapping
                /\ pc # "panic" \/ i < Len(hist)
    /\ (~strict /\ Terminated /\ SomeUnresolved) =>
        /\ pc = "done"
        /\ stdout = Substituted(input, mapping)

\* an unresolved placeholder was passed and a later one was resolved
C4_Witness ==
    /\ pc = "done"
    /\ ~strict
    /\ \E i \in 1..Len(hist) : \E j \in (i + 1)..Len(hist) :
        hist[i].kind = "notfound" /\ hist[j].kind = "found"
    /\ stdout # input

(***************************************************************************)
(* C5: strict, the first placeholder in scan order whose key has no entry  *)
(* ends the run with a resolution error naming that key; nothing reaches   *)
(* standard output, and no unresolved placeholder is ever passed over.     *)
(***************************************************************************)
C5_StrictAbortsOnFirstMissingKey ==
    strict =>
        /\ "notfound" \notin Kinds
        /\ pc # "done" => stdout = <<>>
        /\ (stdin.valid /\ Terminated /\ StrictOutcome(input, mapping).kind = "resolve") =>
            /\ pc = "panic"
            /\ panicMsg = Panic("resolve", 0, StrictOutcome(input, mapping).key)
            /\ stdout = <<>>

\* the missing key came after a substitution that was already settled
C5_Witness ==
    /\ strict
    /\ pc = "panic"
    /\ panicMsg.kind = "resolve"
    /\ "found" \in Kinds
    /\ buf # input
    /\ stdout = <<>>

(***************************************************************************)
(* C6: an opening guard with no closing guard at or after it ends the run  *)
(* with a mismatched-guard error; its line number is the number of         *)
(* newlines in the buffer before the cursor the iteration started from     *)
(* (not before the guard); nothing reaches standard output.                *)
(***************************************************************************)
C6_MismatchedGuardLine ==
    /\ \A i \in 1..Len(hist) :
        LET h == hist[i]
        IN  (h.begin >= h.travel /\ Slice(h.buf, h.begin, h.begin + 2) = OpenGuard
              /\ \A j \in (h.begin + 1)..Len(h.buf) : h.buf[j] # "}") =>
                /\ pc = "panic"
                /\ i = Len(hist)
                /\ panicMsg = Panic("mismatched", CountNewlines(Slice(h.buf, 0, h.travel)), <<>>)
                /\ stdout = <<>>
    /\ panicMsg.kind = "mismatched" => hist # <<>> /\ hist[Len(hist)].end = -1
    /\ (stdin.valid /\ Terminated /\ ~strict /\ ~WellFormed(input)) =>
        /\ pc = "panic"
        /\ panicMsg.kind = "mismatched"
        /\ stdout = <<>>
    /\ (stdin.valid /\ Terminated /\ input = <<"a", "$", "{", "a">>) =>
        panicMsg = Panic("mismatched", 0, <<>>)

\* a newline lies between the cursor and the unmatched guard, after an
\* earlier placeholder was settled: the reported line is not the guard's
C6_Witness ==
    /\ pc = "panic"
    /\ panicMsg.kind = "mismatched"
    /\ Len(hist) >= 2
    /\ panicMsg.line # CountNewlines(Slice(buf, 0, begin))

CountGuards(s) == Cardinality({i \in 0..(Len(s) - 2) : Slice(s, i, i + 2) = OpenGuard})

Remainder(st) == Len(st.buf) - st.travel

\* the variant of the loop: the remainder shrinks, the iterations are counted
\* by the guards of the input, and the run ends in one of the three ways
C9_Progress ==
    /\ \A i \in 1..Len(hist) :
        hist[i].kind \in {"found", "notfound"} => Remainder(After(i)) < Remainder(hist[i])
    /\ Len(hist) <= CountGuards(input)
    /\ (Terminated /\ stdin.valid) =>
        pc = "done" \/ panicMsg.kind \in {"mismatched", "resolve"}

(***************************************************************************)
(* C9: the scan loop terminates, in success, a mismatched-guard error or a *)
(* strict resolution error.  Every iteration that continues leaves a       *)
(* strictly shorter unscanned remainder (cursor to end of buffer), and the *)
(* loop body runs at most once per "${" of the original input.             *)
(***************************************************************************)
C9_ScanTerminates == []C9_Progress /\ <>Terminated

\* a run of two iterations that met an empty value, a value longer than its
\* placeholder and a value holding "${"
C9_Witness ==
    /\ Terminated
    /\ Len(hist) >= 2
    /\ \E i \in 1..Len(hist) :
        /\ hist[i].kind = "found"
        /\ Len(mapping[hist[i].key]) > hist[i].end + 1 - hist[i].begin
        /\ Find(mapping[hist[i].key], OpenGuard) # -1

IsSuffix(t, s) == Len(t) <= Len(s) /\ From(s, Len(s) - Len(t)) = t

(***************************************************************************)
(* C10: in every iteration 0 <= cursor <= length of the buffer, the cursor *)
(* never decreases, cursor <= begin and begin + 2 <= end < length, the     *)
(* text before the cursor is never modified afterwards (it is a prefix of  *)
(* the output), and the text from the cursor on is a suffix of the         *)
(* original input.                                                         *)
(***************************************************************************)
C10_CursorInvariants ==
    /\ 0 <= travel /\ travel <= Len(buf)
    /\ (stdin.valid /\ pc # "interpolate") => IsSuffix(From(buf, travel), input)
    /\ pc = "done" => stdout = buf
    /\ \A i \in 1..Len(hist) :
        LET h == hist[i]
        IN  /\ 0 <= h.travel /\ h.travel <= Len(h.buf)
            /\ h.travel <= After(i).travel
            /\ h.travel <= h.begin
            /\ h.end # -1 => h.begin + 2 <= h.end /\ h.end < Len(h.buf)
            /\ Slice(h.buf, h.begin, h.begin + 2) = OpenGuard
            /\ h.end # -1 => h.buf[h.end + 1] = "}"
            /\ Slice(buf, 0, h.travel) = Slice(h.buf, 0, h.travel)
            /\ Slice(buf, 0, After(i).travel) = Slice(After(i).buf, 0, After(i).travel)
            /\ IsSuffix(From(h.buf, h.travel), input)

\* a replacement changed the length of the buffer, literal text lay between
\* the cursor and the next opening guard, and the run went on to the end
C10_Witness ==
    /\ pc = "done"
    /\ Len(hist) >= 2
    /\ hist[1].kind = "found"
    /\ Len(hist[2].buf) # Len(input)
    /\ hist[2].travel < hist[2].begin
    /\ travel > 0

SameKeyIgnoringCase(k1, k2) == to_ascii_lowercase(k1) = to_ascii_lowercase(k2)

(***************************************************************************)
(* C3: key lookup is case-insensitive: a placeholder whose key differs     *)
(* from a mapping entry's key only in letter case resolves, with the       *)
(* environment and with a text file as the source.                         *)
(***************************************************************************)
C3_CaseInsensitiveLookup ==
    \A i \in 1..Len(hist) :
        (\E k \in DOMAIN mapping : SameKeyIgnoringCase(k, hist[i].key)) =>
            /\ hist[i].kind = "found"
            /\ \E k \in DOMAIN mapping :
                /\ SameKeyIgnoringCase(k, hist[i].key)
                /\ Slice(After(i).buf, hist[i].begin, After(i).travel) = mapping[k]

\* offset of the first "=" of s, from offset i on, that is not half of a "=="
RECURSIVE FirstUnescaped(_, _)
FirstUnescaped(s, i) ==
    IF i >= Len(s) THEN -1
    ELSE IF s[i + 1] # "=" THEN FirstUnescaped(s, i + 1)
    ELSE IF i + 1 < Len(s) /\ s[i + 2] = "=" THEN FirstUnescaped(s, i + 2)
    ELSE i

RECURSIVE Collapsed(_)
Collapsed(s) ==
    IF s = <<>> THEN <<>>
    ELSE IF Len(s) >= 2 /\ s[1] = "=" /\ s[2] = "=" THEN <<"=">> \o Collapsed(From(s, 2))
    ELSE <<s[1]>> \o Collapsed(Tail(s))

EscapedKey(line) == Collapsed(Slice(line, 0, FirstUnescaped(line, 0)))

EscapedValue(line) == Collapsed(From(line, FirstUnescaped(line, 0) + 1))

\* the line has one separator: what follows it holds only "==" pairs
IsDefinition(line) ==
    /\ FirstUnescaped(line, 0) # -1
    /\ FirstUnescaped(line, FirstUnescaped(line, 0) + 1) = -1

(***************************************************************************)
(* C7: a text definitions line is split on its first unescaped "=", and    *)
(* every "==" of the key and of the value is stored as a single "=".       *)
(***************************************************************************)
C7_TextLineEscaping ==
    (pc \in {"interpolate", "scan", "done"} /\ mode.tag = "TextFile") =>
        LET lines == fs[mode.p]
        IN  \A i \in 1..Len(lines) :
                IsDefinition(lines[i]) =>
                    /\ EscapedKey(lines[i]) \in DOMAIN mapping
                    /\ (\A j \in (i + 1)..Len(lines) :
                            IsDefinition(lines[j]) => EscapedKey(lines[j]) # EscapedKey(lines[i]))
                        => mapping[EscapedKey(lines[i])] = EscapedValue(lines[i])

Json == <<"j", "s", "o", "n">>

ExtensionIs(x) ==
    /\ file.some
    /\ Extension(file.path).some
    /\ to_ascii_lowercase(Extension(file.path).path) = x

Loaded == pc \in {"interpolate", "scan", "done"} \/ (pc = "panic" /\ hist # <<>>)

(***************************************************************************)
(* C8: without -f the definitions are the environment; with -f <path> and  *)
(* extension txt they are read from the text file at <path>; with          *)
(* extension json they are read from the JSON file at <path>; any other or *)
(* missing extension is a configuration error before interpolation.        *)
(***************************************************************************)
C8_SourceSelection ==
    /\ (~file.some /\ Loaded) => mapping = env
    /\ (ExtensionIs(Txt) /\ file.path \in DOMAIN fs) =>
        /\ panicMsg.kind # "open"
        /\ Loaded => mapping = ParseLines(EmptyMap, fs[file.path])
    /\ (ExtensionIs(Json) /\ file.path \in DOMAIN fs) =>
        panicMsg.kind \notin {"unsupported", "noextension", "open"}
    /\ (file.some /\ ~ExtensionIs(Txt) /\ ~ExtensionIs(Json) /\ pc # "main") =>
        /\ pc = "panic"
        /\ panicMsg.kind \in {"unsupported", "noextension"}
        /\ hist = <<>>

====
